---- MODULE Spec2Model ----
(***************************************************************************)
(* ExchangeManager of instabot-trader (src/src/exchanges/manager.js): the   *)
(* reference-counted pool of opened exchanges, the per-block command        *)
(* sequence and the message dispatcher, as the cooperative tasks of one     *)
(* JavaScript event loop.  An action is the code that runs between two      *)
(* suspension points (await init, await executeCommand, the cool-down       *)
(* timer, await terminate).                                                 *)
(***************************************************************************)
EXTENDS Integers, Sequences, FiniteSets, TLC

\* ---------------------------------------------------------------- bounds
MaxMsgs == 2
MaxTasks == 2
MaxBlocks == 2
MaxActs == 2
MaxSeqActs == 3
MaxCalls == 4

\* ---------------------------------------------------------------- inputs
\* "no handle" (null / undefined)
Null == 0

\* The credentials list handed to executeMessage: alias "a" names catalog
\* entry "x" through its exchange field, "b" has no exchange field and falls
\* back to its own name, "u" names an exchange the catalog does not hold.
Credentials ==
    << [name |-> "a", exchange |-> "x"],
       [name |-> "b", exchange |-> ""],
       [name |-> "u", exchange |-> "zz"] >>

\* The names of the supported exchanges (this.exchanges).
Catalog == {"x", "b"}

\* The exchange names a block of a message can carry ("n" has no credentials).
BlockNames == {"a", "b", "u", "n"}

VARIABLES
    opened,     \* this.opened: sequence of handle ids
    handles,    \* every handle object ever instantiated, by id
    tasks,      \* one record per block callback of executeMessage
    msgs,       \* one record per executeMessage call
    timers,     \* pending setTimeout(..., 500) callbacks, in firing order
    sessions,   \* number of uuid() session identifiers generated
    drv,        \* the serial caller: its call in flight
    hist,       \* the serial caller: the calls that have returned
    inbox,      \* the message texts executeMessage was called with, by message
    notified,   \* the notifier.send calls: [msg, text]
    raw,        \* the string handed to parseArguments
    params      \* what parseArguments returned for it

\* The texts and what the parsers made of them.
tvars == << inbox, notified, raw, params >>

vars == << opened, handles, tasks, msgs, timers, sessions, drv, hist, tvars >>

\* ------------------------------------------------------- exchange handles
\* new match.class(credentials): the reference count starts at 1.
NewHandle(name, cred) ==
    [name |-> name, cred |-> cred, refCount |-> 1,
     init |-> "pending", terms |-> 0]

\* exchange.matches(name, credentials)
matches(h, name, cred) == h.name = name /\ h.cred = cred

\* exchange.addReference()
addReference(hs, h) == [hs EXCEPT ![h].refCount = @ + 1]

\* exchange.removeReference(): the handles after the call; the call returns
\* the new count.
removeReference(hs, h) == [hs EXCEPT ![h].refCount = @ - 1]

\* ------------------------------------------------------------------- pool
\* A pool value is [opened, handles].
Pool == [opened |-> opened, handles |-> handles]

findOpened(P, name, cred) ==
    LET hit == {i \in 1..Len(P.opened) : matches(P.handles[P.opened[i]], name, cred)}
    IN  IF hit = {} THEN Null
        ELSE P.opened[CHOOSE i \in hit : \A j \in hit : i <= j]

\* The catalog looked up by the block's name alone.
CatalogMatchByName(name, cred) == name \in Catalog

\* credentials.exchange || name, looked up in this.exchanges
CatalogMatch(name, cred) ==
    LET exchangeName == IF Credentials[cred].exchange # ""
                        THEN Credentials[cred].exchange ELSE name
    IN  exchangeName \in Catalog

\* openExchange instantiating a handle without looking for an opened one.
OpenSyncNoLookup(P, name, cred) ==
    IF ~CatalogMatch(name, cred)
    THEN [pool |-> P, res |-> Null, wait |-> FALSE]
    ELSE LET h == Len(P.handles) + 1
         IN  [pool |-> [opened |-> Append(P.opened, h),
                        handles |-> Append(P.handles, NewHandle(name, cred))],
              res |-> h, wait |-> TRUE]

\* openExchange returning the handle it found without taking a reference.
OpenSyncNoReference(P, name, cred) ==
    LET exchange == findOpened(P, name, cred)
    IN  IF exchange # Null
        THEN [pool |-> P, res |-> exchange, wait |-> FALSE]
        ELSE IF ~CatalogMatch(name, cred)
        THEN [pool |-> P, res |-> Null, wait |-> FALSE]
        ELSE LET h == Len(P.handles) + 1
             IN  [pool |-> [opened |-> Append(P.opened, h),
                            handles |-> Append(P.handles, NewHandle(name, cred))],
                  res |-> h, wait |-> TRUE]

\* openExchange up to its first suspension point.  res is the handle the call
\* is about (found or new) or Null; wait says init() has been called and the
\* call is suspended on it.
OpenSync(P, name, cred) ==
    LET exchange == findOpened(P, name, cred)
    IN  IF exchange # Null
        THEN [pool |-> [P EXCEPT !.handles = addReference(P.handles, exchange)],
              res |-> exchange, wait |-> FALSE]
        ELSE IF ~CatalogMatch(name, cred)
        THEN [pool |-> P, res |-> Null, wait |-> FALSE]
        ELSE LET h == Len(P.handles) + 1
             IN  [pool |-> [opened |-> Append(P.opened, h),
                            handles |-> Append(P.handles, NewHandle(name, cred))],
                  res |-> h, wait |-> TRUE]

\* closeExchange releasing the handle without looking it up in the open-set.
CloseSyncUnregistered(P, exchange) ==
    IF exchange = Null THEN [pool |-> P, wait |-> FALSE]
    ELSE LET hs == removeReference(P.handles, exchange)
         IN  IF hs[exchange].refCount <= 0
             THEN [pool |-> [P EXCEPT !.handles =
                                [hs EXCEPT ![exchange].terms = @ + 1]],
                   wait |-> TRUE]
             ELSE [pool |-> [P EXCEPT !.handles = hs], wait |-> FALSE]

\* closeExchange up to its first suspension point.  wait says terminate() has
\* been called on the handle and the call is suspended on it.
CloseSync(P, exchange) ==
    IF exchange = Null THEN [pool |-> P, wait |-> FALSE]
    ELSE LET ex == findOpened(P, P.handles[exchange].name, P.handles[exchange].cred)
         IN  IF ex = Null THEN [pool |-> P, wait |-> FALSE]
             ELSE LET hs == removeReference(P.handles, exchange)
                  IN  IF hs[exchange].refCount <= 0
                      THEN [pool |-> [P EXCEPT !.handles =
                                         [hs EXCEPT ![exchange].terms = @ + 1]],
                            wait |-> TRUE]
                      ELSE [pool |-> [P EXCEPT !.handles = hs], wait |-> FALSE]

\* this.opened = this.opened.filter(item => item !== exchange)
SelectSeqNe(s, x) ==
    LET keep(y) == y # x IN SelectSeq(s, keep)

\* closeExchange leaving this.opened as it is after terminate().
CloseFinishNoFilter(P, exchange) == P

CloseFinish(P, exchange) == [P EXCEPT !.opened = SelectSeqNe(@, exchange)]

\* -------------------------------------------------------------- dispatcher
\* credentials.find(item => item.name === exchangeName): an index, or 0
FindCred(name) ==
    LET hit == {i \in 1..Len(Credentials) : Credentials[i].name = name}
    IN  IF hit = {} THEN 0 ELSE CHOOSE i \in hit : \A j \in hit : i <= j

\* The callback going on to the sequence without checking the handle.
BlockStartUnchecked(P, b, m) ==
    LET c == FindCred(b.name)
        o == OpenSync(P, b.name, c)
        t0 == [msg |-> m, name |-> b.name, nActs |-> b.nActs, pc |-> "nocreds",
               opens |-> 0, h |-> Null, session |-> 0, log |-> << >>,
               reported |-> << >>, seq |-> "none", closes |-> 0]
    IN  IF c = 0 THEN [pool |-> P, task |-> t0]
        ELSE [pool |-> o.pool,
              task |-> [t0 EXCEPT !.opens = 1, !.h = o.res,
                                  !.pc = IF o.wait THEN "init" ELSE "opened"]]

\* The callback executeMessage hands to commandBlocks, up to its first
\* suspension point, for block b of message m: the pool afterwards and the
\* callback's record: the block (msg, name, nActs: the number of actions its
\* text parses to), where the callback stands (pc), the handle openExchange is
\* about (h), and what has been observed of it: calls of openExchange (opens),
\* the session identifier, the executeCommand calls in call order with their
\* outcome (log), the actions reported FAILED (reported), how the sequence's
\* promise settled (seq), calls of closeExchange from the cool-down (closes).
\*   pc = "nocreds"   reported "No credentials", finished
\*        "init"      suspended in openExchange on init()
\*        "opened"    openExchange has returned handle h, continuation queued
\*        "nohandle"  openExchange has returned null, continuation queued
BlockStart(P, b, m) ==
    LET c == FindCred(b.name)
        o == OpenSync(P, b.name, c)
        t0 == [msg |-> m, name |-> b.name, nActs |-> b.nActs, pc |-> "nocreds",
               opens |-> 0, h |-> Null, session |-> 0, log |-> << >>,
               reported |-> << >>, seq |-> "none", closes |-> 0]
    IN  IF c = 0 THEN [pool |-> P, task |-> t0]
        ELSE [pool |-> o.pool,
              task |-> [t0 EXCEPT !.opens = 1, !.h = o.res,
                                  !.pc = IF o.wait THEN "init"
                                         ELSE IF o.res # Null THEN "opened"
                                         ELSE "nohandle"]]

\* commandBlocks calling the callback for every block of the message in turn:
\* the pool and the task list after blocks i..Len(bs).
RECURSIVE Dispatch(_, _, _, _, _)
Dispatch(P, ts, bs, i, m) ==
    IF i > Len(bs) THEN [pool |-> P, tasks |-> ts]
    ELSE LET r == BlockStart(P, bs[i], m)
         IN  Dispatch(r.pool, Append(ts, r.task), bs, i + 1, m)

Blocks == [name : BlockNames, nActs : 0..MaxActs]

\* The block lists of messages of n blocks.
BlockLists(n) == [1..n -> Blocks]

\* Continuations queued on the promise job queue run before any timer or
\* I/O callback, first queued first.
Queued(t) == tasks[t].pc \in {"opened", "nohandle"}

Idle == \A t \in 1..Len(tasks) : ~Queued(t)

NextQueued(t) == Queued(t) /\ \A u \in 1..(t - 1) : ~Queued(u)

\* executeMessage(msg, credentials): every block's callback runs up to its
\* first await, then `all` is returned as it stands.  all starts as
\* [Promise.resolve()], written 0; a block's completion is written as the
\* block's index in tasks.  returned is all as it was at the return.
ExecuteMessage(bs) ==
    /\ Idle
    /\ Len(msgs) < MaxMsgs
    /\ Len(tasks) + Len(bs) <= MaxTasks
    /\ LET m == Len(msgs) + 1
           r == Dispatch(Pool, tasks, bs, 1, m)
       IN  /\ opened' = r.pool.opened
           /\ handles' = r.pool.handles
           /\ tasks' = r.tasks
           /\ msgs' = Append(msgs, [blocks |-> Len(tasks) + 1 .. Len(tasks) + Len(bs),
                                     all |-> << 0 >>, returned |-> << 0 >>])
    /\ UNCHANGED << timers, sessions, drv, hist, tvars >>

\* The sequence's actions all started together (async.each).
SeqNextAllAtOnce(t1, err) ==
    IF Len(t1.log) = 0 /\ t1.nActs > 0
    THEN [t1 EXCEPT !.log = [i \in 1..t1.nActs |->
                                [idx |-> i, session |-> t1.session,
                                 h |-> t1.h, res |-> "pending"]]]
    ELSE [t1 EXCEPT !.seq = "resolved"]

\* async.eachSeries's next(err) after action n of the sequence: an error ends
\* the sequence and rejects its promise, otherwise the following action is
\* started or, after the last one, the promise resolves.  started says
\* executeCommand has been called for the next action, ended that the
\* sequence's promise has settled.
SeqNext(t1, err) ==
    LET n == Len(t1.log)
    IN  IF err THEN [t1 EXCEPT !.seq = "rejected"]
        ELSE IF n < t1.nActs
        THEN [t1 EXCEPT !.log = Append(@, [idx |-> n + 1, session |-> t1.session,
                                           h |-> t1.h, res |-> "pending"])]
        ELSE [t1 EXCEPT !.seq = "resolved"]

\* The cool-down timer set when the sequence starts, not when it settles.
FinallyAtStart(t1) == [t1 EXCEPT !.pc = "cooldown"]

\* .catch(...).finally(() => setTimeout(() => this.closeExchange(exchange), 500))
\* on the sequence's promise: once it has settled the cool-down timer is set.
Finally(t1) == IF t1.seq = "none" THEN t1 ELSE [t1 EXCEPT !.pc = "cooldown"]

\* The callback after `await this.openExchange(...)` gave a handle:
\* all.push(this.executeCommandSequence(exchange, symbol, actions)...), which
\* takes a session identifier and starts the first action; with no action
\* parsed the sequence resolves at once.
ResumeOpened(t) ==
    /\ NextQueued(t) /\ tasks[t].pc = "opened"
    /\ sessions' = sessions + 1
    /\ msgs' = [msgs EXCEPT ![tasks[t].msg].all = Append(@, t)]
    /\ LET t1 == Finally(SeqNext([tasks[t] EXCEPT !.session = sessions', !.pc = "run"],
                                 FALSE))
       IN  /\ tasks' = [tasks EXCEPT ![t] = t1]
           /\ timers' = IF t1.pc = "cooldown" THEN Append(timers, t) ELSE timers
    /\ UNCHANGED << opened, handles, drv, hist, tvars >>

\* The callback after openExchange gave null: "is not supported".
ResumeNoHandle(t) ==
    /\ NextQueued(t) /\ tasks[t].pc = "nohandle"
    /\ tasks' = [tasks EXCEPT ![t].pc = "unsupported"]
    /\ UNCHANGED << opened, handles, msgs, timers, sessions, drv, hist, tvars >>

\* newExchange.init(symbol) resolves: openExchange returns newExchange.
InitOk(t) ==
    /\ Idle /\ tasks[t].pc = "init"
    /\ handles' = [handles EXCEPT ![tasks[t].h].init = "ok"]
    /\ tasks' = [tasks EXCEPT ![t].pc = "opened"]
    /\ UNCHANGED << opened, msgs, timers, sessions, drv, hist, tvars >>

\* newExchange.init(symbol) rejects: await this.closeExchange(newExchange),
\* then return null.
InitFail(t) ==
    /\ Idle /\ tasks[t].pc = "init"
    /\ LET h == tasks[t].h
           c == CloseSync([Pool EXCEPT !.handles[h].init = "failed"], h)
       IN  /\ opened' = c.pool.opened
           /\ handles' = c.pool.handles
           /\ tasks' = [tasks EXCEPT ![t].pc = IF c.wait THEN "failclose" ELSE "nohandle"]
    /\ UNCHANGED << msgs, timers, sessions, drv, hist, tvars >>

\* The iteratee handing a failed action's error to next(err).
SeqStepAbort(t1, ok) ==
    LET n == Len(t1.log)
    IN  SeqNext(IF ok THEN t1 ELSE [t1 EXCEPT !.reported = Append(@, t1.log[n].idx)],
                ~ok)

\* The iteratee's reaction to the settled action: .then(() => next()), or
\* .catch: the action is reported FAILED, and next() all the same.
SeqStep(t1, ok) ==
    LET n == Len(t1.log)
    IN  SeqNext(IF ok THEN t1 ELSE [t1 EXCEPT !.reported = Append(@, t1.log[n].idx)],
                FALSE)

\* exchange.executeCommand(...) of the action in flight settles.
CommandSettle(t, ok) ==
    /\ Idle /\ tasks[t].pc = "run"
    /\ LET n == Len(tasks[t].log)
           t0 == [tasks[t] EXCEPT !.log[n].res = IF ok THEN "ok" ELSE "failed"]
           t1 == Finally(SeqStep(t0, ok))
       IN  /\ tasks' = [tasks EXCEPT ![t] = t1]
           /\ timers' = IF t1.pc = "cooldown" THEN Append(timers, t) ELSE timers
    /\ UNCHANGED << opened, handles, msgs, sessions, drv, hist, tvars >>

\* The cool-down timer fires: this.closeExchange(exchange).
TimerFire ==
    /\ Idle /\ timers # << >>
    /\ LET t == Head(timers)
           c == CloseSync(Pool, tasks[t].h)
       IN  /\ opened' = c.pool.opened
           /\ handles' = c.pool.handles
           /\ tasks' = [tasks EXCEPT ![t].pc = IF c.wait THEN "closing" ELSE "closed",
                                     ![t].closes = @ + 1]
    /\ timers' = Tail(timers)
    /\ UNCHANGED << msgs, sessions, drv, hist, tvars >>

\* exchange.terminate() resolves: the handle is filtered out of this.opened;
\* a close made for a failed init then lets openExchange return null.
TerminateOk(t) ==
    /\ Idle /\ tasks[t].pc \in {"closing", "failclose"}
    /\ opened' = CloseFinish(Pool, tasks[t].h).opened
    /\ tasks' = [tasks EXCEPT ![t].pc = IF @ = "closing" THEN "closed" ELSE "nohandle"]
    /\ UNCHANGED << handles, msgs, timers, sessions, drv, hist, tvars >>

\* exchange.terminate() rejects: closeExchange rejects with it, and so does an
\* openExchange that was closing after a failed init.
TerminateFail(t) ==
    /\ Idle /\ tasks[t].pc \in {"closing", "failclose"}
    /\ tasks' = [tasks EXCEPT ![t].pc = IF @ = "closing" THEN "closethrew" ELSE "openthrew"]
    /\ UNCHANGED << opened, handles, msgs, timers, sessions, drv, hist, tvars >>

\* ----------------------------------------------------------- serial caller
\* A caller that uses the pool directly and awaits every call before making
\* the next one.  drv is the call in flight, hist the calls that have returned
\* (h: the handle returned by an open, or passed to a close) or thrown.
NoCall == [op |-> "none", pc |-> "", cred |-> 0, h |-> Null]

Returned(op, cred, h) == [op |-> op, cred |-> cred, h |-> h, threw |-> FALSE]

Threw(op, cred, h) == [op |-> op, cred |-> cred, h |-> h, threw |-> TRUE]

\* await openExchange(credentials.name, credentials, symbol)
SerialOpen(c) ==
    /\ drv.op = "none" /\ Len(hist) < MaxCalls
    /\ LET o == OpenSync(Pool, Credentials[c].name, c)
       IN  /\ opened' = o.pool.opened
           /\ handles' = o.pool.handles
           /\ IF o.wait
              THEN drv' = [op |-> "open", pc |-> "init", cred |-> c, h |-> o.res]
                   /\ hist' = hist
              ELSE drv' = drv /\ hist' = Append(hist, Returned("open", c, o.res))
    /\ UNCHANGED << tasks, msgs, timers, sessions, tvars >>

SerialInitOk ==
    /\ drv.op = "open" /\ drv.pc = "init"
    /\ handles' = [handles EXCEPT ![drv.h].init = "ok"]
    /\ hist' = Append(hist, Returned("open", drv.cred, drv.h))
    /\ drv' = NoCall
    /\ UNCHANGED << opened, tasks, msgs, timers, sessions, tvars >>

SerialInitFail ==
    /\ drv.op = "open" /\ drv.pc = "init"
    /\ LET c == CloseSync([Pool EXCEPT !.handles[drv.h].init = "failed"], drv.h)
       IN  /\ opened' = c.pool.opened
           /\ handles' = c.pool.handles
           /\ IF c.wait
              THEN drv' = [drv EXCEPT !.pc = "failclose"] /\ hist' = hist
              ELSE drv' = NoCall /\ hist' = Append(hist, Returned("open", drv.cred, Null))
    /\ UNCHANGED << tasks, msgs, timers, sessions, tvars >>

\* await closeExchange(exchange), for any handle ever returned, or null
SerialClose(h) ==
    /\ drv.op = "none" /\ Len(hist) < MaxCalls
    /\ LET c == CloseSync(Pool, h)
           cred == IF h = Null THEN 0 ELSE handles[h].cred
       IN  /\ opened' = c.pool.opened
           /\ handles' = c.pool.handles
           /\ IF c.wait
              THEN drv' = [op |-> "close", pc |-> "closing", cred |-> cred, h |-> h]
                   /\ hist' = hist
              ELSE drv' = drv /\ hist' = Append(hist, Returned("close", cred, h))
    /\ UNCHANGED << tasks, msgs, timers, sessions, tvars >>

SerialTerminateOk ==
    /\ drv.pc \in {"closing", "failclose"}
    /\ opened' = CloseFinish(Pool, drv.h).opened
    /\ hist' = Append(hist, IF drv.op = "close" THEN Returned("close", drv.cred, drv.h)
                            ELSE Returned("open", drv.cred, Null))
    /\ drv' = NoCall
    /\ UNCHANGED << handles, tasks, msgs, timers, sessions, tvars >>

SerialTerminateFail ==
    /\ drv.pc \in {"closing", "failclose"}
    /\ hist' = Append(hist, Threw(drv.op, drv.cred, drv.h))
    /\ drv' = NoCall
    /\ UNCHANGED << opened, handles, tasks, msgs, timers, sessions, tvars >>

\* ------------------------------------------------------------------ texts
\* A text is a sequence of one-character strings.
Quote == "\""

\* [a-zA-Z] (and [a-z] under the i flag), [0-9] and \s on the characters the
\* texts are made of.
IsLetter(c) == c \in {"a", "b", "s", "u", "x", "y", "A"}

IsDigit(c) == c \in {"1", "2"}

IsSpace(c) == c = " "

\* Every character a text of the model is made of.
Chars ==
    {"a", "b", "s", "u", "x", "y", "A", "1", "2",
     "=", ",", Quote, " ", "(", ")", "{", "}", "!"}

Letters == {c \in Chars : IsLetter(c)}

NonSpaces == {c \in Chars : ~IsSpace(c)}

MinOf(S) == CHOOSE x \in S : \A y \in S : x <= y

MaxOf(S) == CHOOSE x \in S : \A y \in S : x >= y

\* The first index from `from` on whose character is in the class C, or 0.
FirstIdx(s, from, C) ==
    LET hit == {i \in from..Len(s) : s[i] \in C}
    IN  IF hit = {} THEN 0 ELSE MinOf(hit)

\* The last index of the longest run of characters of the class C that
\* starts at p (p - 1 when the run is empty).
RunEnd(s, p, C) ==
    LET stop == FirstIdx(s, p, Chars \ C)
    IN  IF stop = 0 THEN Len(s) ELSE stop - 1

\* String.prototype.trim
trim(s) ==
    LET ink == {i \in 1..Len(s) : ~IsSpace(s[i])}
    IN  IF ink = {} THEN << >> ELSE SubSeq(s, MinOf(ink), MaxOf(ink))

\* ------------------------------------------------------- argument parser
NonCommas == Chars \ {","}

\* /([^,]+?\"[^\"]+\")|([^,]+)/ matched at index p of s: the index the match
\* ends at, or 0.  First alternative: the fewest non-commas (at least one)
\* that are followed by a quote, one or more non-quotes and a quote; second
\* alternative: the longest run of non-commas.
splitByComma(s, p) ==
    IF s[p] = "," THEN 0
    ELSE LET run == RunEnd(s, p, NonCommas)
             quoted == {i \in p..run :
                          /\ i + 1 <= Len(s) /\ s[i + 1] = Quote
                          /\ FirstIdx(s, i + 2, {Quote}) >= i + 3}
         IN  IF quoted # {} THEN FirstIdx(s, MinOf(quoted) + 2, {Quote})
             ELSE run

\* Fregex.forEach(regex, params, (m, i) => argList.push(m[0].trim())): the
\* successive matches from index p on, trimmed.
RECURSIVE argList(_, _)
argList(s, p) ==
    IF p > Len(s) THEN << >>
    ELSE LET e == splitByComma(s, p)
         IN  IF e = 0 THEN argList(s, p + 1)
             ELSE << trim(SubSeq(s, p, e)) >> \o argList(s, e + 1)

\* /^(([a-zA-Z]+)\s*=\s*(("([^"]*)")|"?(.+)"?))|(.+)$/.exec(item): the groups
\* the code reads.  m5, m6, m7 are the captures 5, 6, 7; has5 says capture 5
\* took part in the match (it can be the empty string); hit says the regex
\* matched at all.
splitValues(item) ==
    LET n == Len(item)
        none == [hit |-> FALSE, m2 |-> << >>, has5 |-> FALSE, m5 |-> << >>,
                 m6 |-> << >>, m7 |-> << >>]
        L == RunEnd(item, 1, Letters)
        e == FirstIdx(item, L + 1, NonSpaces)
        v == FirstIdx(item, e + 1, NonSpaces)
        q == FirstIdx(item, v + 1, {Quote})
        named == L >= 1 /\ e # 0 /\ item[e] = "=" /\ v # 0
    IN  IF n = 0 THEN none
        ELSE IF named /\ item[v] = Quote /\ q # 0
        THEN [none EXCEPT !.hit = TRUE, !.m2 = SubSeq(item, 1, L),
                          !.has5 = TRUE, !.m5 = SubSeq(item, v + 1, q - 1)]
        ELSE IF named
        THEN [none EXCEPT !.hit = TRUE, !.m2 = SubSeq(item, 1, L),
                          !.m6 = IF item[v] = Quote /\ v < n
                                 THEN SubSeq(item, v + 1, n)
                                 ELSE SubSeq(item, v, n)]
        ELSE [none EXCEPT !.hit = TRUE, !.m7 = item]

\* /^"(.*)"$/.exec(m[7]): the value without its surrounding quotes
quotes(m7) ==
    IF Len(m7) >= 2 /\ m7[1] = Quote /\ m7[Len(m7)] = Quote
    THEN SubSeq(m7, 2, Len(m7) - 1) ELSE m7

\* The Param pushed for item number i (from 0) of the list, if any: a capture
\* counts when it is a non-empty string.
ParamOf(item, i) ==
    LET m == splitValues(item)
    IN  IF ~m.hit THEN << >>
        ELSE IF m.m7 # << >>
        THEN << [name |-> << >>, value |-> quotes(m.m7), index |-> i] >>
        ELSE IF m.m6 # << >>
        THEN << [name |-> m.m2, value |-> m.m6, index |-> i] >>
        ELSE IF m.m5 # << >>
        THEN << [name |-> m.m2, value |-> m.m5, index |-> i] >>
        ELSE << >>

RECURSIVE ParamsFrom(_, _)
ParamsFrom(items, k) ==
    IF k > Len(items) THEN << >>
    ELSE ParamOf(items[k], k - 1) \o ParamsFrom(items, k + 1)

\* parseArguments(params)
parseArguments(s) == ParamsFrom(argList(s, 1), 1)

\* parseArguments has not been called.
NotCalled == [done |-> FALSE, list |-> << >>]

\* ------------------------------------------------------- message parsers
Digits == {c \in Chars : IsDigit(c)}

\* String.prototype.toLowerCase
toLowerCase(s) == [i \in 1..Len(s) |-> IF s[i] = "A" THEN "a" ELSE s[i]]

NoMatch == [hit |-> FALSE, name |-> << >>, symbol |-> << >>, actions |-> << >>, to |-> 0]

\* /([a-z][a-z0-9]*)\(([^()]*?)\)\s*{([\s\S]*?)}/gi matched at index p of s:
\* the captures 1, 2, 3 and the index the match ends at.
blockAt(s, p) ==
    LET e1 == RunEnd(s, p, Letters \cup Digits)
        c == FirstIdx(s, e1 + 2, {"(", ")"})
        o == FirstIdx(s, c + 1, NonSpaces)
        cl == FirstIdx(s, o + 1, {"}"})
    IN  IF /\ IsLetter(s[p])
           /\ e1 + 1 <= Len(s) /\ s[e1 + 1] = "("
           /\ c # 0 /\ s[c] = ")"
           /\ o # 0 /\ s[o] = "{"
           /\ cl # 0
        THEN [hit |-> TRUE, name |-> SubSeq(s, p, e1),
              symbol |-> SubSeq(s, e1 + 2, c - 1),
              actions |-> SubSeq(s, o + 1, cl - 1), to |-> cl]
        ELSE NoMatch

\* regex.forEach(..., msg, (m) => ...): the successive matches from p on.
RECURSIVE blockMatches(_, _)
blockMatches(s, p) ==
    IF p > Len(s) THEN << >>
    ELSE LET m == blockAt(s, p)
         IN  IF m.hit THEN << m >> \o blockMatches(s, m.to + 1)
             ELSE blockMatches(s, p + 1)

\* The parts the callback extracts from a match.
Parts(m) ==
    [exchangeName |-> toLowerCase(trim(m.name)), symbol |-> trim(m.symbol),
     actions |-> trim(m.actions)]

\* commandBlocks calling cb for every match, whatever its parts.
commandBlocksUnchecked(msg) ==
    LET ms == blockMatches(msg, 1)
    IN  [i \in 1..Len(ms) |-> Parts(ms[i])]

\* commandBlocks(msg, cb): the calls of cb, in order.
commandBlocks(msg) ==
    LET ms == blockMatches(msg, 1)
        all == [i \in 1..Len(ms) |-> Parts(ms[i])]
        ok(b) == b.exchangeName # << >> /\ b.symbol # << >> /\ b.actions # << >>
    IN  SelectSeq(all, ok)

\* /([a-z]+)\(([\s\S]*?)\)/gi matched at index p of s.
actionAt(s, p) ==
    LET e1 == RunEnd(s, p, Letters)
        c == FirstIdx(s, e1 + 2, {")"})
    IN  IF IsLetter(s[p]) /\ e1 + 1 <= Len(s) /\ s[e1 + 1] = "(" /\ c # 0
        THEN [hit |-> TRUE, name |-> SubSeq(s, p, e1),
              symbol |-> SubSeq(s, e1 + 2, c - 1), actions |-> << >>, to |-> c]
        ELSE NoMatch

\* parseActions(commands) from index p on
RECURSIVE parseActions(_, _)
parseActions(s, p) ==
    IF p > Len(s) THEN << >>
    ELSE LET m == actionAt(s, p)
         IN  IF m.hit
             THEN << [name |-> trim(m.name),
                      params |-> parseArguments(trim(m.symbol))] >>
                  \o parseActions(s, m.to + 1)
             ELSE parseActions(s, p + 1)

\* ------------------------------------------------------- alert extractor
\* /([a-z]+)\(([\s\S]*?)\)\s*{([\s\S]*?)}/gi matched at index p of s: the
\* index the match ends at, or 0.  The parenthesis closes at the first ")"
\* that is followed, after whitespace, by "{" and later by "}".
alertBlockAt(s, p) ==
    LET e1 == RunEnd(s, p, Letters)
        closes == {c \in (e1 + 2)..Len(s) :
                      /\ s[c] = ")"
                      /\ LET o == FirstIdx(s, c + 1, NonSpaces)
                         IN  o # 0 /\ s[o] = "{" /\ FirstIdx(s, o + 1, {"}"}) # 0}
    IN  IF IsLetter(s[p]) /\ e1 + 1 <= Len(s) /\ s[e1 + 1] = "(" /\ closes # {}
        THEN FirstIdx(s, FirstIdx(s, MinOf(closes) + 1, NonSpaces) + 1, {"}"})
        ELSE 0

\* msg.replace(/([a-z]+)\(([\s\S]*?)\)\s*{([\s\S]*?)}/gi, '') from index p on
RECURSIVE removeBlocks(_, _)
removeBlocks(s, p) ==
    IF p > Len(s) THEN << >>
    ELSE LET e == alertBlockAt(s, p)
         IN  IF e = 0 THEN << s[p] >> \o removeBlocks(s, p + 1)
             ELSE removeBlocks(s, e + 1)

\* The indices at which {!} starts.
Markers(s) ==
    {i \in 1..(Len(s) - 2) : s[i] = "{" /\ s[i + 1] = "!" /\ s[i + 2] = "}"}

\* .replace(/\{!\}/, ''): the first marker taken out.
removeMarker(s) ==
    IF Markers(s) = {} THEN s
    ELSE LET i == MinOf(Markers(s))
         IN  SubSeq(s, 1, i - 1) \o SubSeq(s, i + 3, Len(s))

\* .replace(/\s+/ug, ' ') from index p on: every run of whitespace becomes
\* one space.
RECURSIVE collapse(_, _)
collapse(s, p) ==
    IF p > Len(s) THEN << >>
    ELSE IF IsSpace(s[p]) THEN << " " >> \o collapse(s, RunEnd(s, p, {" "}) + 1)
    ELSE << s[p] >> \o collapse(s, p + 1)

\* handleAlerts(msg) for message number m: the notifier.send calls it makes.
handleAlerts(msg, m) ==
    IF Markers(msg) = {} THEN << >>
    ELSE LET toSend == trim(collapse(removeMarker(removeBlocks(msg, 1)), 1))
         IN  IF toSend # << >> THEN << [msg |-> m, text |-> toSend] >> ELSE << >>

\* --------------------------------------------------------- message texts
\* A message text is up to MaxPieces of these pieces one after the other:
\* blocks for the exchanges with credentials ("a", "b", "u"; "_" stands for a
\* space in these comments), a block whose name has a digit, one with an
\* upper-case name and a space before the brace, blocks with an empty symbol
\* and a blank body, the alert marker, and plain text with and without
\* parentheses.
MaxPieces == 3

MaxTextMsgs == 1

Pieces ==
    { << "a", "(", "s", ")", "{", "x", "(", "1", ")", "}" >>,   \* a(s){x(1)}
      << "b", "(", "s", ")", "{", "x", "(", "1", ")", "x", "(", "2", ")", "}" >>,   \* b(s){x(1)x(2)}
      << "u", "(", "s", ")", "{", "x", "(", "1", ")", "}" >>,   \* u(s){x(1)}
      << "a", "1", "(", "s", ")", "{", "x", "(", "1", ")", "}" >>,   \* a1(s){x(1)}
      << "A", "(", "s", ")", " ", "{", "y", "(", ")", "}" >>,   \* A(s)_{y()}
      << "a", "(", ")", "{", "x", "(", "1", ")", "}" >>,   \* a(){x(1)}
      << "a", "(", "s", ")", "{", " ", "}" >>,   \* a(s){_}
      << "{", "!", "}" >>,   \* {!}
      << "y" >>,   \* y
      << " " >>,   \* _
      << "y", "(", "1", ")" >> }   \* y(1)

RECURSIVE Concat(_, _)
Concat(ps, i) == IF i > Len(ps) THEN << >> ELSE ps[i] \o Concat(ps, i + 1)

Texts == {Concat(ps, 1) : ps \in UNION {[1..k -> Pieces] : k \in 0..MaxPieces}}

\* The block's exchange name as the dispatcher's block name: the names of
\* BlockNames are one character long, and any other name has no credentials,
\* like "n".
NameOf(cs) ==
    IF \E n \in BlockNames : cs = << n >>
    THEN CHOOSE n \in BlockNames : cs = << n >>
    ELSE "n"

\* The blocks commandBlocks hands to the callback: the name the credentials
\* are looked up by, and the number of actions parseActions finds in the
\* actions text.
BlocksOf(msg) ==
    LET cb == commandBlocks(msg)
    IN  [i \in 1..Len(cb) |->
            [name |-> NameOf(cb[i].exchangeName),
             nActs |-> Len(parseActions(cb[i].actions, 1))]]

\* executeMessage(msg, credentials) on a message text: the blocks are
\* dispatched as in ExecuteMessage, then handleAlerts(msg) runs.
ExecuteMessageText(msg) ==
    /\ Idle
    /\ Len(msgs) < MaxTextMsgs
    /\ LET m == Len(msgs) + 1
           bs == BlocksOf(msg)
           r == Dispatch(Pool, tasks, bs, 1, m)
       IN  /\ Len(tasks) + Len(bs) <= MaxTasks
           /\ opened' = r.pool.opened
           /\ handles' = r.pool.handles
           /\ tasks' = r.tasks
           /\ msgs' = Append(msgs, [blocks |-> Len(tasks) + 1 .. Len(tasks) + Len(bs),
                                     all |-> << 0 >>, returned |-> << 0 >>])
           /\ inbox' = Append(inbox, msg)
           /\ notified' = notified \o handleAlerts(msg, m)
    /\ UNCHANGED << timers, sessions, drv, hist, raw, params >>

\* The strings parseArguments is applied to: every string of up to MaxArgLen
\* of the characters ArgChars, and some longer ones (the first is
\* a=1,b="x,y",2).
MaxArgLen == 5

ArgChars == {"a", "1", "=", ",", Quote, " "}

ArgSamples ==
    { << "a", "=", "1", ",", "b", "=", Quote, "x", ",", "y", Quote, ",", "2" >>,
      << "a", "=", Quote, "x", " ", "y", Quote, ",", "b", "=", " ", Quote, "1", ",", "2", Quote >>,
      << Quote, "x", ",", "y", Quote, ",", "1" >>,
      << "a", "=", Quote, Quote, ",", "b", "=", Quote, "y", Quote >> }

ArgStrings == UNION {[1..k -> ArgChars] : k \in 0..MaxArgLen} \cup ArgSamples

\* A caller applying parseArguments to the string.
ParseArguments ==
    /\ ~params.done
    /\ params' = [done |-> TRUE, list |-> parseArguments(raw)]
    /\ UNCHANGED << opened, handles, tasks, msgs, timers, sessions, drv, hist,
                    inbox, notified, raw >>

Init ==
    /\ opened = << >>
    /\ handles = << >>
    /\ tasks = << >>
    /\ msgs = << >>
    /\ timers = << >>
    /\ sessions = 0
    /\ drv = NoCall
    /\ hist = << >>
    /\ inbox = << >>
    /\ notified = << >>
    /\ raw = << >>
    /\ params = NotCalled

Next ==
    \/ \E n \in 0..MaxBlocks :
          /\ Len(tasks) + n <= MaxTasks
          /\ \E bs \in BlockLists(n) : ExecuteMessage(bs)
    \/ \E t \in 1..Len(tasks) : ResumeOpened(t)
    \/ \E t \in 1..Len(tasks) : ResumeNoHandle(t)
    \/ \E t \in 1..Len(tasks) : InitOk(t)
    \/ \E t \in 1..Len(tasks) : InitFail(t)
    \/ \E t \in 1..Len(tasks), ok \in BOOLEAN : CommandSettle(t, ok)
    \/ TimerFire
    \/ \E t \in 1..Len(tasks) : TerminateOk(t)
    \/ \E t \in 1..Len(tasks) : TerminateFail(t)

Spec == Init /\ [][Next]_vars

\* The pool under the serial caller alone.
SerialNext ==
    \/ \E c \in 1..Len(Credentials) : SerialOpen(c)
    \/ SerialInitOk
    \/ SerialInitFail
    \/ \E h \in 0..Len(handles) : SerialClose(h)
    \/ SerialTerminateOk
    \/ SerialTerminateFail

SpecSerial == Init /\ [][SerialNext]_vars

\* Messages of one block each for the same exchange, with longer sequences.
SeqBlockLists == [1..1 -> [name : {"a"}, nActs : 0..MaxSeqActs]]

NextSeq ==
    \/ \E bs \in SeqBlockLists : ExecuteMessage(bs)
    \/ \E t \in 1..Len(tasks) : ResumeOpened(t)
    \/ \E t \in 1..Len(tasks) : ResumeNoHandle(t)
    \/ \E t \in 1..Len(tasks) : InitOk(t)
    \/ \E t \in 1..Len(tasks) : InitFail(t)
    \/ \E t \in 1..Len(tasks), ok \in BOOLEAN : CommandSettle(t, ok)
    \/ TimerFire
    \/ \E t \in 1..Len(tasks) : TerminateOk(t)
    \/ \E t \in 1..Len(tasks) : TerminateFail(t)

SpecSeq == Init /\ [][NextSeq]_vars

\* Every step of the event loop other than the arrival of a message, with
\* terminate() always resolving.
Progress ==
    \/ \E t \in 1..Len(tasks) : ResumeOpened(t)
    \/ \E t \in 1..Len(tasks) : ResumeNoHandle(t)
    \/ \E t \in 1..Len(tasks) : InitOk(t)
    \/ \E t \in 1..Len(tasks) : InitFail(t)
    \/ \E t \in 1..Len(tasks), ok \in BOOLEAN : CommandSettle(t, ok)
    \/ TimerFire
    \/ \E t \in 1..Len(tasks) : TerminateOk(t)

NextLeak ==
    \/ \E n \in 0..MaxBlocks :
          /\ Len(tasks) + n <= MaxTasks
          /\ \E bs \in BlockLists(n) : ExecuteMessage(bs)
    \/ Progress

\* The dispatcher when every init(), executeCommand and terminate() settles,
\* terminate() resolving, and every queued continuation and cool-down timer
\* runs: the event loop does not stay idle while a step is ready.  Messages
\* arrive or not.
SpecLeak == Init /\ [][NextLeak]_vars /\ WF_vars(Progress)

\* parseArguments applied to one string.
InitArgs ==
    /\ opened = << >> /\ handles = << >> /\ tasks = << >> /\ msgs = << >>
    /\ timers = << >> /\ sessions = 0 /\ drv = NoCall /\ hist = << >>
    /\ inbox = << >> /\ notified = << >>
    /\ raw \in ArgStrings
    /\ params = NotCalled

NextArgs == ParseArguments

SpecArgs == InitArgs /\ [][NextArgs]_vars

\* The dispatcher on message texts.
NextText ==
    \/ /\ Idle /\ Len(msgs) < MaxTextMsgs
       /\ \E msg \in Texts : ExecuteMessageText(msg)
    \/ \E t \in 1..Len(tasks) : ResumeOpened(t)
    \/ \E t \in 1..Len(tasks) : ResumeNoHandle(t)
    \/ \E t \in 1..Len(tasks) : InitOk(t)
    \/ \E t \in 1..Len(tasks) : InitFail(t)
    \/ \E t \in 1..Len(tasks), ok \in BOOLEAN : CommandSettle(t, ok)
    \/ TimerFire
    \/ \E t \in 1..Len(tasks) : TerminateOk(t)
    \/ \E t \in 1..Len(tasks) : TerminateFail(t)

SpecText == Init /\ [][NextText]_vars

\* ------------------------------------------------------------------ claims
InOpened(h) == \E i \in 1..Len(opened) : opened[i] = h

\* The serial caller's returned calls that concern credentials c, in order.
CallsOn(c) ==
    LET on(e) == e.cred = c IN SelectSeq(hist, on)

IsOpenOf(e, h) == e.op = "open" /\ e.h = h /\ ~e.threw

IsCloseOf(e, h) == e.op = "close" /\ e.h = h /\ ~e.threw

\* C1: serially, with no call for the identity in flight: when the first two
\* calls for an identity are opens and the first returned a handle, the second
\* returned the same handle, and its count is 2 and it is the identity's one
\* entry of the open-set; after one close of it, it is still in the open-set
\* and terminate() has not been called; after a second close, terminate() has
\* been called once and it is not in the open-set.
C1_SerialRefCount ==
    \A c \in 1..Len(Credentials) :
        LET k == CallsOn(c)
        IN  (drv.cred # c /\ Len(k) >= 2 /\ k[1].op = "open" /\ ~k[1].threw
                /\ k[1].h # Null /\ k[2].op = "open" /\ ~k[2].threw) =>
            LET h == k[1].h
            IN  /\ k[2].h = h
                /\ Len(k) = 2 =>
                      /\ handles[h].refCount = 2
                      /\ InOpened(h)
                      /\ handles[h].terms = 0
                      /\ \A g \in 1..Len(handles) :
                            (InOpened(g) /\ handles[g].cred = c) => g = h
                /\ (Len(k) = 3 /\ IsCloseOf(k[3], h)) =>
                      /\ InOpened(h)
                      /\ handles[h].terms = 0
                      /\ handles[h].refCount = 1
                /\ (Len(k) = 4 /\ IsCloseOf(k[3], h) /\ IsCloseOf(k[4], h)) =>
                      /\ handles[h].terms = 1
                      /\ ~InOpened(h)

\* C1 witness: open, open, close, close of one identity have all returned.
C1_Witness ==
    \E c \in 1..Len(Credentials) :
        LET k == CallsOn(c)
        IN  /\ drv.op = "none" /\ Len(k) = 4
            /\ k[1].h # Null /\ IsOpenOf(k[1], k[1].h) /\ IsOpenOf(k[2], k[1].h)
            /\ IsCloseOf(k[3], k[1].h) /\ IsCloseOf(k[4], k[1].h)

SameIdentity(g, h) ==
    handles[g].name = handles[h].name /\ handles[g].cred = handles[h].cred

\* C2: the open-set never holds two handles of one (name, credentials)
\* identity, so no identity has a second handle instantiated and initialised
\* while its entry is in the open-set.
C2_OnePerIdentity ==
    \A i, j \in 1..Len(opened) : SameIdentity(opened[i], opened[j]) => i = j

\* C2 witness: two blocks have raced for one identity (one suspended on
\* init(), the other already given the handle) and share the one handle.
C2_Witness ==
    \E t, u \in 1..Len(tasks) :
        /\ t # u /\ tasks[t].pc = "init" /\ tasks[u].pc \in {"opened", "run"}
        /\ tasks[u].h = tasks[t].h
        /\ Len(handles) = 1 /\ InOpened(tasks[t].h)

\* C3: a handle's reference count is above zero exactly when the handle is in
\* the open-set.
C3_CountIffOpened ==
    \A h \in 1..Len(handles) : handles[h].refCount > 0 <=> InOpened(h)

\* C4: once openExchange has returned no handle for a handle whose init()
\* failed, terminate() has been called on that handle and it is not in the
\* open-set.
C4_InitFailureDestroys ==
    \A t \in 1..Len(tasks) :
        (tasks[t].pc \in {"nohandle", "unsupported"} /\ tasks[t].h # Null) =>
            /\ handles[tasks[t].h].terms > 0
            /\ ~InOpened(tasks[t].h)

\* The block's sequence has settled (its cool-down timer is set or has fired).
SeqOver(t) == tasks[t].pc \in {"cooldown", "closing", "closed", "closethrew"}

\* The block was skipped: no credentials, or openExchange gave no handle.
Skipped(t) == tasks[t].pc \in {"nocreds", "nohandle", "unsupported"}

Settled(t) == \A i \in 1..Len(tasks[t].log) : tasks[t].log[i].res # "pending"

\* The indices of the executeCommand calls that rejected, in call order.
FailedIdx(log) ==
    LET failed(e) == e.res = "failed"
        f == SelectSeq(log, failed)
    IN  [i \in 1..Len(f) |-> f[i].idx]

TimerCount(t) == Cardinality({i \in 1..Len(timers) : timers[i] = t})

\* C5: the actions reported FAILED are exactly the actions whose executeCommand
\* rejected, once each; the sequence's promise is never rejected; and when the
\* sequence has settled, executeCommand has been called exactly once for every
\* action of the list and the promise has resolved.
C5_FailuresContained ==
    \A t \in 1..Len(tasks) :
        /\ tasks[t].reported = FailedIdx(tasks[t].log)
        /\ tasks[t].seq # "rejected"
        /\ SeqOver(t) =>
              /\ tasks[t].seq = "resolved"
              /\ Len(tasks[t].log) = tasks[t].nActs
              /\ \A i \in 1..tasks[t].nActs : tasks[t].log[i].idx = i

\* C5 witness: of three actions only the second failed; the third was executed
\* and one failure was reported.
C5_Witness ==
    \E t \in 1..Len(tasks) :
        /\ SeqOver(t) /\ tasks[t].nActs = 3 /\ Len(tasks[t].log) = 3
        /\ tasks[t].log[1].res = "ok" /\ tasks[t].log[2].res = "failed"
        /\ tasks[t].log[3].res = "ok" /\ tasks[t].reported = << 2 >>

\* C6: a block's executeCommand calls are made in the actions' order, each one
\* only after every earlier one has settled, and all with the block's one
\* session identifier.
C6_InOrderNoOverlap ==
    \A t \in 1..Len(tasks) :
        \A i \in 1..Len(tasks[t].log) :
            /\ tasks[t].log[i].idx = i
            /\ tasks[t].log[i].session = tasks[t].log[1].session
            /\ tasks[t].log[i].session # 0
            /\ i < Len(tasks[t].log) => tasks[t].log[i].res # "pending"

\* C6 witness: two blocks each have an action in flight, one of them its
\* second.
C6_Witness ==
    \E t, u \in 1..Len(tasks) :
        /\ t # u /\ tasks[t].pc = "run" /\ tasks[u].pc = "run"
        /\ Len(tasks[t].log) = 2 /\ tasks[t].log[1].res = "failed"

\* C7: a block's closeExchange is scheduled (timer set, or fired) exactly once
\* when its sequence has settled and not at all before or when its open gave
\* no handle; it is for the handle openExchange returned, and when it runs every
\* action of the block has been executed and has settled.
C7_OneCloseAfterSequence ==
    \A t \in 1..Len(tasks) :
        /\ TimerCount(t) + tasks[t].closes = IF SeqOver(t) THEN 1 ELSE 0
        /\ SeqOver(t) =>
              /\ tasks[t].h # Null
              /\ Len(tasks[t].log) = tasks[t].nActs
              /\ Settled(t)

\* C7 witness: the cool-down close of a block has run after its two actions,
\* one of which failed.
C7_Witness ==
    \E t \in 1..Len(tasks) :
        /\ tasks[t].closes = 1 /\ tasks[t].nActs = 2 /\ Len(tasks[t].reported) = 1

\* C8: every block of a message is dispatched; a block without credentials
\* makes no openExchange call; a skipped block executes no action and has no
\* close scheduled and no completion pushed; no action is executed without a
\* handle; and a block whose sequence has settled has executed all its actions
\* whatever became of the other blocks of its message.
C8_BlockFailureContained ==
    /\ \A m \in 1..Len(msgs) : msgs[m].blocks \subseteq 1..Len(tasks)
    /\ \A t \in 1..Len(tasks) :
          /\ tasks[t].opens = IF FindCred(tasks[t].name) = 0 THEN 0 ELSE 1
          /\ FindCred(tasks[t].name) = 0 => tasks[t].pc = "nocreds"
          /\ tasks[t].h = Null => tasks[t].log = << >>
          /\ Skipped(t) =>
                /\ tasks[t].log = << >> /\ tasks[t].session = 0
                /\ tasks[t].closes = 0 /\ TimerCount(t) = 0
                /\ \A i \in 1..Len(msgs[tasks[t].msg].all) :
                      msgs[tasks[t].msg].all[i] # t
          /\ SeqOver(t) => Len(tasks[t].log) = tasks[t].nActs /\ Settled(t)

\* C8 witness: in one message a block without credentials or one whose
\* exchange is not supported comes before a block that ran its two actions.
C8_Witness ==
    \E t, u \in 1..Len(tasks) :
        /\ tasks[t].msg = tasks[u].msg /\ t > u
        /\ tasks[u].pc \in {"nocreds", "unsupported"}
        /\ SeqOver(t) /\ tasks[t].nActs = 2

\* The exchange name of (name, credentials) is in no catalog entry.
NoCatalogEntry(name, c) ==
    (IF Credentials[c].exchange # "" THEN Credentials[c].exchange ELSE name) \notin Catalog

\* C9: in every state of the pool, openExchange for an identity that is not in
\* the open-set and has no catalog entry returns no handle, calls neither
\* init() nor terminate(), and leaves the open-set and every handle as they
\* are.
C9_UnknownExchangeNoEffect ==
    \A name \in BlockNames, c \in 1..Len(Credentials) :
        (findOpened(Pool, name, c) = Null /\ NoCatalogEntry(name, c)) =>
            OpenSync(Pool, name, c) = [pool |-> Pool, res |-> Null, wait |-> FALSE]

\* C9 witness: a block naming an unsupported exchange was given no handle
\* while another identity's handle was in the open-set.
C9_Witness ==
    \E t \in 1..Len(tasks) :
        /\ tasks[t].name = "u" /\ tasks[t].pc = "nohandle" /\ tasks[t].h = Null
        /\ Len(opened) = 1 /\ Len(handles) = 1 /\ handles[1].refCount = 1

\* C10: the collection executeMessage returned held, when it was returned, the
\* completion of every block of the message that gets executed.
C10_ReturnedHoldsCompletions ==
    \A m \in 1..Len(msgs) :
        \A t \in msgs[m].blocks :
            tasks[t].session # 0 =>
                \E i \in 1..Len(msgs[m].returned) : msgs[m].returned[i] = t

\* The handle registered in the open-set for the identity of handle h.
Registered(h) == findOpened(Pool, handles[h].name, handles[h].cred)

\* C15: in every state of the pool, closeExchange of no handle, or of a handle
\* whose identity has no handle in the open-set, changes nothing (no count, no
\* terminate(), the open-set as it is) and does not suspend; and a close that
\* leaves the count above zero lowers that one count by one, calls no
\* terminate() and leaves the handle in the open-set.
C15_CloseNoOp ==
    \A h \in 0..Len(handles) :
        LET c == CloseSync(Pool, h)
        IN  IF h = Null \/ Registered(h) = Null
            THEN c = [pool |-> Pool, wait |-> FALSE]
            ELSE handles[h].refCount - 1 > 0 =>
                    /\ ~c.wait
                    /\ c.pool.opened = opened /\ InOpened(h)
                    /\ c.pool.handles =
                          [handles EXCEPT ![h].refCount = handles[h].refCount - 1]

\* C15 witness: the serial caller closed a handle to its end, closed it again
\* when nothing was registered for its identity, and closed null: the handle
\* was terminated once and its count is where the first close left it.
C15_Witness ==
    /\ drv.op = "none" /\ Len(hist) = 4
    /\ hist[1].h # Null /\ IsOpenOf(hist[1], hist[1].h)
    /\ IsCloseOf(hist[2], hist[1].h) /\ IsCloseOf(hist[3], hist[1].h)
    /\ IsCloseOf(hist[4], Null)
    /\ opened = << >> /\ handles[hist[1].h].terms = 1
    /\ handles[hist[1].h].refCount = 0

\* C16: executeCommand is called on a handle only after the handle's
\* init(symbol) has completed successfully: every handle with a call in a
\* block's log is initialised.
C16_ActionsAfterInit ==
    \A t \in 1..Len(tasks) :
        \A i \in 1..Len(tasks[t].log) :
            handles[tasks[t].log[i].h].init = "ok"

\* C17: a handle openExchange has given to a block has had no terminate()
\* call and is in the open-set from the moment it is given until the block's
\* sequence has settled, so no action is executed on a terminated handle.
C17_NoUseAfterTerminate ==
    \A t \in 1..Len(tasks) :
        tasks[t].pc \in {"opened", "run"} =>
            /\ handles[tasks[t].h].terms = 0
            /\ InOpened(tasks[t].h)

\* C18: terminate() is called at most once on a handle, and a closeExchange
\* that lowers a handle's count or terminates it is given the handle that is
\* registered in the open-set for its identity.
C18_TerminateOnce ==
    /\ \A h \in 1..Len(handles) : handles[h].terms <= 1
    /\ \A t \in 1..Len(tasks) :
          (timers # << >> /\ Head(timers) = t /\ Registered(tasks[t].h) # Null) =>
              Registered(tasks[t].h) = tasks[t].h

\* The open-set is empty and terminate() has been called on every handle ever
\* instantiated.
Drained ==
    /\ opened = << >>
    /\ \A h \in 1..Len(handles) : handles[h].terms >= 1

\* C19: when every init(), action and terminate() settles (terminate()
\* resolving) and the cool-down closes run, the pool ends up, after the last
\* message, with an empty open-set and every instantiated handle terminated,
\* and stays so.
C19_NoLeak == <>[]Drained

\* C19 witness: the pool has drained after two blocks raced for one handle
\* whose init() failed, one of them having had an action fail.
C19_Witness ==
    /\ Drained /\ Len(tasks) = 2 /\ timers = << >>
    /\ tasks[1].h # Null /\ tasks[1].h = tasks[2].h
    /\ handles[tasks[1].h].init = "failed"
    /\ \E t \in 1..2 : tasks[t].pc = "closed" /\ tasks[t].reported # << >>

\* The comma at index k of s lies between an opening double quote and its
\* closing one (quotes pair up from the left).
InQuotes(s, k) ==
    /\ s[k] = ","
    /\ Cardinality({i \in 1..(k - 1) : s[i] = Quote}) % 2 = 1
    /\ \E j \in (k + 1)..Len(s) : s[j] = Quote

\* The pieces of s between the commas that are not inside quotes: how many
\* there are, and whether each has something other than whitespace in it.
Delimiters(s) == {k \in 1..Len(s) : s[k] = "," /\ ~InQuotes(s, k)}

NumTokens(s) == IF s = << >> THEN 0 ELSE Cardinality(Delimiters(s)) + 1

NoBlankToken(s) ==
    \A d \in Delimiters(s) \cup {0} :
        \E i \in (d + 1)..Len(s) :
            /\ ~IsSpace(s[i]) /\ i \notin Delimiters(s)
            /\ \A e \in Delimiters(s) : e > d => i < e

\* The [from, to] index pairs of the successive matches of splitByComma.
RECURSIVE SplitSpans(_, _)
SplitSpans(s, p) ==
    IF p > Len(s) THEN << >>
    ELSE LET e == splitByComma(s, p)
         IN  IF e = 0 THEN SplitSpans(s, p + 1)
             ELSE << << p, e >> >> \o SplitSpans(s, e + 1)

\* C12: parseArguments splits only on commas outside double-quoted
\* substrings: a comma between an opening and a closing quote is inside one
\* token, for named values (b="x,y") and positional ones ("x,y") alike, so the
\* Params are no more than the pieces the unquoted commas delimit; and
\* a=1,b="x,y",2 gives (a, 1, 0), (b, x,y, 1), ('', 2, 2).
C12_SplitOutsideQuotes ==
    params.done =>
        /\ \A k \in 1..Len(raw) :
              InQuotes(raw, k) =>
                  \E i \in 1..Len(SplitSpans(raw, 1)) :
                      SplitSpans(raw, 1)[i][1] < k /\ k < SplitSpans(raw, 1)[i][2]
        /\ Len(params.list) <= NumTokens(raw)
        /\ raw = << "a", "=", "1", ",", "b", "=", Quote, "x", ",", "y", Quote, ",", "2" >> =>
              params.list =
                  << [name |-> << "a" >>, value |-> << "1" >>, index |-> 0],
                     [name |-> << "b" >>, value |-> << "x", ",", "y" >>, index |-> 1],
                     [name |-> << >>, value |-> << "2" >>, index |-> 2] >>

\* C13: for a string with no comma inside quotes, parseArguments returns
\* exactly one Param for every comma-delimited token (a piece with something
\* other than whitespace in it), in the tokens' order, the Param of token
\* number i (from 0) having index i.
C13_OneParamPerToken ==
    (params.done /\ NoBlankToken(raw) /\ \A k \in 1..Len(raw) : ~InQuotes(raw, k)) =>
        /\ Len(params.list) = NumTokens(raw)
        /\ \A i \in 1..Len(params.list) : params.list[i].index = i - 1

\* The text with every match of the block grammar (the regex of
\* commandBlocks) taken out, from index p on.
RECURSIVE WithoutBlocks(_, _)
WithoutBlocks(s, p) ==
    IF p > Len(s) THEN << >>
    ELSE LET m == blockAt(s, p)
         IN  IF m.hit THEN WithoutBlocks(s, m.to + 1)
             ELSE << s[p] >> \o WithoutBlocks(s, p + 1)

\* What is left of the message without its blocks and the marker.
LeftOver(msg) == trim(collapse(removeMarker(WithoutBlocks(msg, 1)), 1))

\* The number of notifier.send calls made for message m.
Sends(m) == Cardinality({i \in 1..Len(notified) : notified[i].msg = m})

\* C11: whatever becomes of its blocks, a message has notifier.send called at
\* most once; never when it has no {!} marker; and when it has one, exactly
\* when the text left after removing all blocks and the marker is not empty.
C11_AlertOncePerMessage ==
    \A m \in 1..Len(inbox) :
        /\ Sends(m) <= 1
        /\ Markers(inbox[m]) = {} => Sends(m) = 0
        /\ Markers(inbox[m]) # {} => (Sends(m) = 1 <=> LeftOver(inbox[m]) # << >>)

\* The regex matches of commandBlocks in message m whose three parts are all
\* non-empty after trimming.
FullMatches(m) ==
    LET ms == blockMatches(inbox[m], 1)
    IN  {i \in 1..Len(ms) :
            /\ trim(ms[i].name) # << >> /\ trim(ms[i].symbol) # << >>
            /\ trim(ms[i].actions) # << >>}

\* C14: the callback of commandBlocks is called only with an exchange name, a
\* symbol and an actions text that are all non-empty after trimming, so a
\* message has one dispatched block (credentials lookup, openExchange,
\* actions) for each such match and none for any other text.
C14_OnlyCompleteBlocks ==
    \A m \in 1..Len(inbox) :
        /\ \A i \in 1..Len(commandBlocks(inbox[m])) :
              /\ commandBlocks(inbox[m])[i].exchangeName # << >>
              /\ commandBlocks(inbox[m])[i].symbol # << >>
              /\ commandBlocks(inbox[m])[i].actions # << >>
        /\ Cardinality(msgs[m].blocks) = Cardinality(FullMatches(m))

\* C14 witness: a message with three matches of the block regex, one with an
\* empty symbol and one with a blank actions text, has had its one complete
\* block dispatched and run to the end, and nothing else.
C14_Witness ==
    \E m \in 1..Len(inbox) :
        /\ Len(blockMatches(inbox[m], 1)) = 3
        /\ \E i \in 1..3 : blockMatches(inbox[m], 1)[i].symbol = << >>
        /\ \E i \in 1..3 : blockMatches(inbox[m], 1)[i].actions = << " " >>
        /\ Len(tasks) = 1 /\ msgs[m].blocks = {1}
        /\ tasks[1].pc = "closed" /\ Len(tasks[1].log) = 1
        /\ Len(handles) = 1

====
